---------------------------- MODULE Spec2Model ----------------------------
(***************************************************************************)
(* Model of three operations of the provider:                              *)
(*   - waitForPairedNamespaceReplication (servicebus/internal.go), whose   *)
(*     StateChangeConf wait is the asynchronous operation poller;          *)
(*   - authorizationRuleCustomizeDiff (servicebus/internal.go);            *)
(*   - resourceVideoAnalyzerEdgeModuleCreateUpdate and ...Read             *)
(*     (videoanalyzer/video_analyzer_edge_module_resource.go).             *)
(* One behaviour is one call of one of them; Init draws the call and its   *)
(* arguments, the actions draw what the cloud API answers.                 *)
(* Time is counted in units of ten seconds.                                *)
(***************************************************************************)
EXTENDS Integers, Sequences, FiniteSets, TLC

\* ---------------------------------------------------------------- bounds
\* largest timeout argument handed to waitForPairedNamespaceReplication
MaxTimeout == 7
\* longest a single disasterRecoveryClient.Get call may take
MaxProbeTime == 1

\* ------------------------------------------------------- program constants
\* MinTimeout: 30 * time.Second, in units of ten seconds
MinTimeout == 3

\* servicebus.Accepted / servicebus.Succeeded / servicebus.Failed
Accepted == "Accepted"
Succeeded == "Succeeded"
Failed == "Failed"

\* what the service can report as ProvisioningState (a string type: values
\* outside the SDK's enumeration can come back from the API)
ProvisioningStates == {Accepted, Succeeded, Failed, "Unknown"}

\* Sku of the namespace in the Get response; "absent" is a nil Sku pointer
Skus == {"absent", "Basic", "Standard", "Premium", "premium"}

VARIABLES
    op,            \* the function called: "wait", "diff" or "create"
    pc,            \* position inside the called function
    ret,           \* what the function returned ("none" while it runs)
    \* --- waitForPairedNamespaceReplication
    err,           \* the local variable err (TRUE: non-nil)
    failedCalls,   \* the calls among "Get", "List" that returned an error
    timeout,       \* the timeout argument
    now,           \* time elapsed since WaitForStateContext started
    wakeAt,        \* when the current sleep ends
    invocations,   \* number of Refresh invocations
    sleeps,        \* number of sleeps started
    observed,      \* what each Refresh invocation read, in order
    cancelledAt,   \* position at which ctx was cancelled ("none": not)
    endTime,       \* value of now when the session returned (-1: running)
    \* --- authorizationRuleCustomizeDiff
    d,             \* the diff: listen, send, manage
    \* --- resourceVideoAnalyzerEdgeModuleCreateUpdate
    isNew,         \* d.IsNewResource()
    id,            \* d.Id()
    existing,      \* what the preliminary Get answered ("uncalled": not called)
    createCalled   \* CreateOrUpdate was called

vars == <<op, pc, ret, err, failedCalls, timeout, now, wakeAt, invocations, sleeps,
          observed, cancelledAt, endTime, d, isNew, id, existing,
          createCalled>>

waitVars == <<err, failedCalls, timeout, now, wakeAt, invocations, sleeps, observed,
              cancelledAt, endTime>>
diffVars == <<d>>
createVars == <<isNew, id, existing, createCalled>>

\* ------------------------------------------------------------- helpers
Min(a, b) == IF a < b THEN a ELSE b

\* strings.EqualFold on the Sku names that occur
ToLower(s) ==
    CASE s = "Premium" -> "premium"
      [] s = "Basic" -> "basic"
      [] s = "Standard" -> "standard"
      [] OTHER -> s

EqualFold(a, b) == ToLower(a) = ToLower(b)

\* --------------------------------------------------- the StateChangeConf
\* Pending: []string{string(servicebus.Accepted)}
Pending_WithUnknown == {Accepted, "Unknown"}
Pending == {Accepted}

\* Target: []string{string(servicebus.Succeeded)}
Target_Empty == {}
Target_WithAccepted == {Succeeded, Accepted}
Target == {Succeeded}

\* Timeout: timeout
Timeout_Extended(t) == t + 2 * MinTimeout
Timeout(t) == t

\* the ctx handed to WaitForStateContext is the caller's ctx
CtxDone_Background(c) == FALSE
CtxDone(c) == c # "none"

\* The Refresh closure. read is what disasterRecoveryClient.Get answered:
\* "GetError" (err != nil), "PropsNil" (ArmDisasterRecoveryProperties nil)
\* or the ProvisioningState.
Reads == {"GetError", "PropsNil"} \cup ProvisioningStates

Refresh_NoFailedCheck(read) ==
    IF read = "GetError"
    THEN [res |-> "nil", state |-> "error", error |-> "ReadError"]
    ELSE IF read # "PropsNil"
         THEN [res |-> "read", state |-> read, error |-> "nil"]
         ELSE [res |-> "read", state |-> "nil", error |-> "ProvisioningStateNil"]

Refresh_ErrorAsPending(read) ==
    IF read \in {"GetError", "PropsNil"}
    THEN [res |-> "read", state |-> Accepted, error |-> "nil"]
    ELSE IF read = Failed
         THEN [res |-> "read", state |-> "failed", error |-> "ReplicationFailed"]
         ELSE [res |-> "read", state |-> read, error |-> "nil"]

Refresh(read) ==
    IF read = "GetError"
    THEN [res |-> "nil", state |-> "error", error |-> "ReadError"]
    ELSE IF read # "PropsNil"
         THEN IF read = Failed
              THEN [res |-> "read", state |-> "failed", error |-> "ReplicationFailed"]
              ELSE [res |-> "read", state |-> read, error |-> "nil"]
         ELSE [res |-> "read", state |-> "nil", error |-> "ProvisioningStateNil"]

\* One evaluation of the poller on what the probe returned at time t:
\* the error the wait returns, or "sleep" to poll again.
Evaluate(r, t, tmo) ==
    IF r.error # "nil" THEN r.error
    ELSE IF r.state \in Target THEN "nil"
    ELSE IF r.state \in Pending
         THEN IF t >= tmo THEN "Timeout" ELSE "sleep"
         ELSE "UnexpectedState"

\* The PollResult variant an error returned by the wait stands for
PollResult(e) ==
    CASE e = "nil" -> "Succeeded"
      [] e = "ReplicationFailed" -> "Failed"
      [] e = "Timeout" -> "TimedOut"
      [] e = "Cancelled" -> "Cancelled"
      [] e \in {"ReadError", "ProvisioningStateNil", "UnexpectedState"} -> "Errored"
      [] OTHER -> "none"

\* ------------------------------------------------------------------ Init
Init ==
    /\ op \in {"wait", "diff", "create"}
    /\ pc = "start"
    /\ ret = "none"
    /\ err = FALSE
    /\ failedCalls = {}
    /\ timeout \in IF op = "wait" THEN 1..MaxTimeout ELSE {1}
    /\ now = 0
    /\ wakeAt = 0
    /\ invocations = 0
    /\ sleeps = 0
    /\ observed = <<>>
    /\ cancelledAt = "none"
    /\ endTime = -1
    /\ d \in IF op = "diff"
             THEN [listen : BOOLEAN, send : BOOLEAN, manage : BOOLEAN]
             ELSE {[listen |-> FALSE, send |-> FALSE, manage |-> FALSE]}
    /\ isNew \in IF op = "create" THEN BOOLEAN ELSE {FALSE}
    /\ id = IF op = "create" /\ ~isNew THEN "id" ELSE ""
    /\ existing = "uncalled"
    /\ createCalled = FALSE

\* ------------------------------------- waitForPairedNamespaceReplication
\* namespaceClient.Get and the Sku test
NamespaceGet ==
    /\ op = "wait" /\ pc = "start"
    /\ \E sku \in Skus, e \in BOOLEAN :
         /\ err' = e
         /\ failedCalls' = IF e THEN {"Get"} ELSE {}
         /\ IF sku = "absent"
            THEN /\ pc' = "done" /\ ret' = "panic"
            ELSE IF ~EqualFold(sku, "Premium")
                 THEN /\ pc' = "done"
                      /\ ret' = IF e THEN "GetError" ELSE "nil"
                 ELSE /\ pc' = "list" /\ ret' = ret
    /\ UNCHANGED <<op, timeout, now, wakeAt, invocations, sleeps, observed,
                   cancelledAt, endTime, diffVars, createVars>>

\* disasterRecoveryClient.List, the Values() tests and the alias name
\* values: "nil" or the number of configurations; nameSet: Values()[0].Name
DisasterRecoveryList ==
    /\ op = "wait" /\ pc = "list"
    /\ \E values \in {"nil", "0", "1", "2"}, nameSet \in BOOLEAN, e \in BOOLEAN :
         /\ err' = e
         /\ failedCalls' = IF e THEN failedCalls \cup {"List"} ELSE failedCalls
         /\ IF values # "1"
            THEN /\ pc' = "done"
                 /\ ret' = IF e THEN "ListError" ELSE "nil"
            ELSE IF ~nameSet
                 THEN /\ pc' = "done" /\ ret' = "panic"
                 ELSE /\ pc' = "poll" /\ ret' = ret
    /\ UNCHANGED <<op, timeout, now, wakeAt, invocations, sleeps, observed,
                   cancelledAt, endTime, diffVars, createVars>>

\* one invocation of the probe and the poller's evaluation of it
Probe ==
    /\ op = "wait" /\ pc = "poll"
    /\ \E read \in Reads, took \in 0..MaxProbeTime :
         LET r == Refresh(read)
             t == now + took
             e == Evaluate(r, t, Timeout(timeout))
         IN /\ invocations' = invocations + 1
            /\ observed' = Append(observed, read)
            /\ now' = t
            /\ IF e = "sleep"
               THEN /\ pc' = "sleeping"
                    /\ sleeps' = sleeps + 1
                    /\ wakeAt' = Min(t + MinTimeout, Timeout(timeout))
                    /\ UNCHANGED <<ret, endTime>>
               ELSE /\ pc' = "done"
                    /\ ret' = e
                    /\ endTime' = t
                    /\ UNCHANGED <<sleeps, wakeAt>>
    /\ UNCHANGED <<op, err, failedCalls, timeout, cancelledAt, diffVars,
                   createVars>>

\* time passes while the session sleeps
Tick ==
    /\ op = "wait" /\ pc = "sleeping"
    /\ ~CtxDone(cancelledAt)
    /\ now < wakeAt
    /\ now' = now + 1
    /\ UNCHANGED <<op, pc, ret, err, failedCalls, timeout, wakeAt, invocations, sleeps,
                   observed, cancelledAt, endTime, diffVars, createVars>>

\* the sleep ends: poll again, or time out when the budget is spent
Wake ==
    /\ op = "wait" /\ pc = "sleeping"
    /\ ~CtxDone(cancelledAt)
    /\ now = wakeAt
    /\ IF now >= Timeout(timeout)
       THEN /\ pc' = "done" /\ ret' = "Timeout" /\ endTime' = now
       ELSE /\ pc' = "poll" /\ UNCHANGED <<ret, endTime>>
    /\ UNCHANGED <<op, err, failedCalls, timeout, now, wakeAt, invocations, sleeps,
                   observed, cancelledAt, diffVars, createVars>>

\* the caller cancels ctx while the wait runs
Cancel ==
    /\ op = "wait" /\ pc \in {"poll", "sleeping"}
    /\ cancelledAt = "none"
    /\ cancelledAt' = pc
    /\ UNCHANGED <<op, pc, ret, err, failedCalls, timeout, now, wakeAt, invocations,
                   sleeps, observed, endTime, diffVars, createVars>>

\* a cancelled ctx interrupts the sleep
AbortSleep ==
    /\ op = "wait" /\ pc = "sleeping"
    /\ CtxDone(cancelledAt)
    /\ pc' = "done" /\ ret' = "Cancelled" /\ endTime' = now
    /\ UNCHANGED <<op, err, failedCalls, timeout, now, wakeAt, invocations, sleeps,
                   observed, cancelledAt, diffVars, createVars>>

\* --------------------------------------- authorizationRuleCustomizeDiff
\* d.GetOk(key): the value and whether it is set to a non-zero value
GetOk(dd, key) == [value |-> dd[key], ok |-> dd[key] # FALSE]

authorizationRuleCustomizeDiff_NoSendCheck(dd) ==
    LET listen == GetOk(dd, "listen")
        send == GetOk(dd, "send")
        manage == GetOk(dd, "manage")
    IN IF ~listen.ok /\ ~send.ok /\ ~manage.ok
       THEN "errNoneSet"
       ELSE IF manage.value /\ ~listen.value
            THEN "errManage"
            ELSE "nil"

authorizationRuleCustomizeDiff(dd) ==
    LET listen == GetOk(dd, "listen")
        send == GetOk(dd, "send")
        manage == GetOk(dd, "manage")
    IN IF ~listen.ok /\ ~send.ok /\ ~manage.ok
       THEN "errNoneSet"
       ELSE IF manage.value /\ (~listen.value \/ ~send.value)
            THEN "errManage"
            ELSE "nil"

CustomizeDiff ==
    /\ op = "diff" /\ pc = "start"
    /\ pc' = "done"
    /\ ret' = authorizationRuleCustomizeDiff(d)
    /\ UNCHANGED <<op, waitVars, diffVars, createVars>>

\* -------------------------- resourceVideoAnalyzerEdgeModuleCreateUpdate
\* what client.Get can answer: found, or an error with the status of the
\* response ("none": no response at all)
GetAnswers == {[err |-> FALSE, status |-> "200"],
               [err |-> TRUE, status |-> "404"],
               [err |-> TRUE, status |-> "500"],
               [err |-> TRUE, status |-> "none"]}

\* utils.ResponseWasNotFound(resp.Response)
ResponseWasNotFound(status) == status = "404"

\* the IsNewResource block: the error it returns, or "proceed"
CheckExisting_NoExistsCheck(new, answer) ==
    IF new /\ answer.err /\ ~ResponseWasNotFound(answer.status)
    THEN "errChecking"
    ELSE "proceed"

CheckExisting(new, answer) ==
    IF new
    THEN IF answer.err /\ ~ResponseWasNotFound(answer.status)
         THEN "errChecking"
         ELSE IF ~ResponseWasNotFound(answer.status)
              THEN "errExists"
              ELSE "proceed"
    ELSE "proceed"

\* the preliminary Get of a new resource (skipped for an existing one)
CreateUpdateCheck ==
    /\ op = "create" /\ pc = "start"
    /\ \E answer \in GetAnswers :
         LET c == CheckExisting(isNew, answer)
         IN /\ existing' = IF isNew THEN answer.status ELSE existing
            /\ IF c = "proceed"
               THEN /\ pc' = "create" /\ ret' = ret
               ELSE /\ pc' = "done" /\ ret' = c
    /\ UNCHANGED <<op, waitVars, diffVars, isNew, id, createCalled>>

\* client.CreateOrUpdate and d.SetId
CreateUpdateCreate ==
    /\ op = "create" /\ pc = "create"
    /\ createCalled' = TRUE
    /\ \E failed \in BOOLEAN :
         IF failed
         THEN /\ pc' = "done" /\ ret' = "errCreating" /\ id' = id
         ELSE /\ pc' = "read" /\ ret' = ret /\ id' = "id"
    /\ UNCHANGED <<op, waitVars, diffVars, isNew, existing>>

\* resourceVideoAnalyzerEdgeModuleRead, called at the end of CreateUpdate;
\* d.Id() is the ID just set, which parse.EdgeModuleID accepts
resourceVideoAnalyzerEdgeModuleRead ==
    /\ op = "create" /\ pc = "read"
    /\ \E answer \in GetAnswers :
         IF answer.err
         THEN IF ResponseWasNotFound(answer.status)
              THEN /\ id' = "" /\ ret' = "nil"
              ELSE /\ id' = id /\ ret' = "errRetrieving"
         ELSE /\ id' = id /\ ret' = "nil"
    /\ pc' = "done"
    /\ UNCHANGED <<op, waitVars, diffVars, isNew, existing, createCalled>>

Next ==
    \/ NamespaceGet
    \/ DisasterRecoveryList
    \/ Probe
    \/ Tick
    \/ Wake
    \/ Cancel
    \/ AbortSleep
    \/ CustomizeDiff
    \/ CreateUpdateCheck
    \/ CreateUpdateCreate
    \/ resourceVideoAnalyzerEdgeModuleRead

Spec == Init /\ [][Next]_vars

\* the scheduler runs the session and the clock as long as they can run
FairSpec == Spec /\ WF_vars(Next)

\* ================================================================ claims
\* a poll session is running / has returned
SessionRunning == op = "wait" /\ pc \in {"poll", "sleeping"}
SessionEnded == op = "wait" /\ pc = "done" /\ endTime >= 0

Last(sq) == sq[Len(sq)]
Range(sq) == {sq[i] : i \in 1..Len(sq)}
AllPending == /\ Len(observed) > 0
              /\ \A i \in 1..Len(observed) : observed[i] = Accepted

\* C1 as stated: a session that returned has exactly one of the four
\* outcomes Succeeded, Failed, TimedOut, Errored.
C1_FourOutcomes ==
    SessionEnded => PollResult(ret) \in {"Succeeded", "Failed", "TimedOut", "Errored"}

\* C1 as amended: a session that returned has exactly one outcome out of
\* Succeeded, Failed, TimedOut, Errored and Cancelled; a running session has
\* reported none; a session whose last observed state is pending returns
\* only TimedOut or Cancelled; an outcome once reported never changes.
C1_OneOutcome ==
    /\ [](/\ SessionRunning => ret = "none"
          /\ SessionEnded =>
               /\ PollResult(ret) \in {"Succeeded", "Failed", "TimedOut",
                                       "Errored", "Cancelled"}
               /\ Last(observed) = Accepted =>
                    PollResult(ret) \in {"TimedOut", "Cancelled"})
    /\ [][ret # "none" => ret' = ret]_vars

C1_Witness ==
    /\ SessionEnded /\ Len(observed) >= 2
    /\ Last(observed) = Accepted /\ PollResult(ret) = "TimedOut"

\* C2: when the probe reads Accepted k times and then Succeeded, the session
\* has returned Succeeded with exactly k+1 invocations and k sleeps; for
\* k = 0 that is one invocation and no sleep.
C2_SucceedsAfterKPending ==
    (/\ op = "wait" /\ Len(observed) > 0
     /\ Last(observed) = Succeeded
     /\ \A i \in 1..(Len(observed) - 1) : observed[i] = Accepted)
    => /\ pc = "done"
       /\ PollResult(ret) = "Succeeded"
       /\ invocations = Len(observed)
       /\ sleeps = Len(observed) - 1

C2_Witness ==
    /\ SessionEnded /\ observed = <<Accepted, Accepted, Succeeded>>
    /\ PollResult(ret) = "Succeeded" /\ invocations = 3

\* C3: once the probe has read provisioning state Failed, the session has
\* returned Failed on that invocation and no invocation follows it.
C3_FailedEndsSession ==
    (op = "wait" /\ Failed \in Range(observed))
    => /\ pc = "done"
       /\ PollResult(ret) = "Failed"
       /\ Last(observed) = Failed
       /\ invocations = Len(observed)

C3_Witness ==
    /\ SessionEnded /\ Len(observed) >= 2 /\ Last(observed) = Failed
    /\ endTime + MinTimeout < timeout

\* C4: once the probe has read a state that is neither pending nor target
\* nor Failed, the session has returned Errored on that invocation and no
\* sleep or invocation follows it.
C4_UnrecognizedStateErrors ==
    (op = "wait" /\ "Unknown" \in Range(observed))
    => /\ pc = "done"
       /\ PollResult(ret) = "Errored"
       /\ Last(observed) = "Unknown"
       /\ sleeps = Len(observed) - 1

C4_Witness ==
    /\ SessionEnded /\ Len(observed) >= 2 /\ Last(observed) = "Unknown"
    /\ ret = "UnexpectedState"

C6_ProbeErrorFailsFast ==
    (op = "wait" /\ Range(observed) \cap {"GetError", "PropsNil"} # {})
    => /\ pc = "done"
       /\ PollResult(ret) = "Errored"
       /\ Last(observed) \in {"GetError", "PropsNil"}
       /\ sleeps = Len(observed) - 1

C6_Witness ==
    /\ SessionEnded /\ Len(observed) >= 2 /\ Last(observed) = "GetError"
    /\ ret = "ReadError"

\* C7: when ctx is cancelled while the session sleeps, the session returns
\* Cancelled, without another probe invocation after the cancellation.
C7_CancelWhileSleeping ==
    /\ []((op = "wait" /\ cancelledAt = "sleeping") =>
            /\ pc \in {"sleeping", "done"}
            /\ pc = "done" => PollResult(ret) = "Cancelled")
    /\ [][cancelledAt = "sleeping" => invocations' = invocations]_vars
    /\ ((op = "wait" /\ cancelledAt = "sleeping") ~> SessionEnded)

C7_Witness ==
    /\ SessionEnded /\ cancelledAt = "sleeping" /\ ret = "Cancelled"
    /\ now < wakeAt

\* C8: authorizationRuleCustomizeDiff returns nil exactly when one of
\* listen, send, manage is true and manage implies listen and send;
\* otherwise it returns an error.
C8_DiffAccepts ==
    (op = "diff" /\ pc = "done")
    => /\ ret \in {"nil", "errNoneSet", "errManage"}
       /\ ret = "nil" <=> /\ d.listen \/ d.send \/ d.manage
                          /\ d.manage => (d.listen /\ d.send)

C8_Witness ==
    op = "diff" /\ pc = "done" /\ ret = "errManage" /\ d.listen /\ ~d.send

\* C9: when the namespace Get or the disaster-recovery List returned an
\* error, the probe is never invoked and the function returns that error.
C9_ApiErrorReturned ==
    (op = "wait" /\ failedCalls # {})
    => /\ invocations = 0
       /\ pc \in {"list", "done"}
       /\ pc = "done" => ret \in {"GetError", "ListError"}

\* C10: for a new resource, when the preliminary Get found the edge module
\* or failed other than with not-found, the operation has returned an error
\* without calling CreateOrUpdate and without setting the ID; CreateOrUpdate
\* is called and the ID set only after a not-found answer.
C10_CreateOnlyAfterNotFound ==
    (op = "create" /\ isNew)
    => /\ existing \in {"200", "500", "none"} =>
            /\ pc = "done"
            /\ ret \in {"errChecking", "errExists"}
            /\ ~createCalled
            /\ id = ""
       /\ (createCalled \/ id # "") => existing = "404"

C10_Witness ==
    op = "create" /\ isNew /\ existing = "200" /\ ret = "errExists"

=============================================================================
